---- MODULE Spec2Model ----
(***************************************************************************)
(* Membership-inference experiments on GNNs: the experiment runner         *)
(* (run_mia.py, MembershipInferenceExperiment.run), the model factory      *)
(* (utils.py, fresh_model over models.py) and the offline LiRA attack      *)
(* (attacks.py, OfflineLiRA).                                              *)
(*                                                                         *)
(* Three entry points are modelled.  entry = "run" is one call of          *)
(* MembershipInferenceExperiment.run under a configuration; entry = "api"  *)
(* is a caller that constructs an attack of attacks.py itself and then     *)
(* calls its methods; entry = "main" is run_experiments.main over the      *)
(* entries of a configuration file.                                        *)
(*                                                                         *)
(* Optional values (Python None, an unbound local) are sequences of length *)
(* 0 or 1.  Floating-point values are records: Fin(v) with v in thousandths*)
(* (logits, probabilities) or quarters (the z statistic), PosInf, NegInf,  *)
(* NaN.                                                                    *)
(***************************************************************************)
EXTENDS Integers, Sequences, FiniteSets, TLC

\* ------------------------------------------------------------------ bounds
NumNodes == 3          \* nodes of the dataset graph
MaxExperiments == 2    \* largest config.experiments (R)
MaxShadowModels == 2   \* largest config.num_shadow_models (K)
NumWeights == 2        \* distinct trained parameter settings a model can end in
MaxCalls == 2          \* method calls on one attack that are counted (then saturates)
MaxGroups == 2         \* largest number of entries of config.yaml

Nodes == 1..NumNodes
Weights == 0..(NumWeights - 1)

None == <<>>
Some(x) == <<x>>
The(o) == o[1]

\* ------------------------------------------------------- models.py / utils.py
\* Keyword parameters each class of models.py accepts (self left out).
ModelParams ==
  [ BaseGNN      |-> {"dropout"},
    GCN          |-> {"in_dim", "hidden_dims", "out_dim", "dropout"},
    SGC          |-> {"in_dim", "hidden_dims", "out_dim", "dropout"},
    GraphSAGE    |-> {"in_dim", "hidden_dims", "out_dim", "dropout"},
    GAT          |-> {"in_dim", "hidden_dims", "out_dim", "heads", "dropout"},
    GIN          |-> {"in_dim", "hidden_dims", "out_dim", "dropout"},
    DecoupledGCN |-> {"in_dim", "hidden_dim", "out_dim", "dropout", "num_propagations"} ]

\* Parameters without a default.
ModelRequired ==
  [ BaseGNN      |-> {},
    GCN          |-> {"in_dim", "hidden_dims", "out_dim"},
    SGC          |-> {"in_dim", "hidden_dims", "out_dim"},
    GraphSAGE    |-> {"in_dim", "hidden_dims", "out_dim"},
    GAT          |-> {"in_dim", "hidden_dims", "out_dim", "heads"},
    GIN          |-> {"in_dim", "hidden_dims", "out_dim"},
    DecoupledGCN |-> {"in_dim", "hidden_dim", "out_dim"} ]

\* The architectures fresh_model's error message names as supported.
SupportedModels == {"GCN", "SGC", "GraphSAGE", "GAT", "GIN"}

\* config.model is a free string; "Transformer" stands for a name models.py lacks.
ModelTypes == SupportedModels \cup {"DecoupledGCN", "Transformer"}

\* A Python call f(**kwargs): the keywords must be parameters and cover the
\* required ones, else TypeError.
CallOk(params, required, kwargs) == kwargs \subseteq params /\ required \subseteq kwargs

FreshModelKwargs == {"in_dim", "hidden_dim", "out_dim", "dropout"}

\* A factory that builds some default architecture for a name it cannot find.
fresh_modelAnyName(model_type) ==
  IF model_type \notin DOMAIN ModelParams THEN "ok"
  ELSE IF CallOk(ModelParams[model_type], ModelRequired[model_type], FreshModelKwargs)
       THEN "ok"
       ELSE "TypeError"

\* fresh_model: "ok", or the exception that leaves it. getattr on a missing
\* name raises AttributeError, which is re-raised as AttributeError; a
\* TypeError of the constructor call is not caught.
fresh_model(model_type) ==
  IF model_type \notin DOMAIN ModelParams THEN "AttributeError"
  ELSE IF CallOk(ModelParams[model_type], ModelRequired[model_type], FreshModelKwargs)
       THEN "ok"
       ELSE "TypeError"

\* ------------------------------------------------------------- attacks.py
AttackInitParams ==
  [ BasicShadowAttack |-> {"target_model", "shadow_dataset", "target_samples", "config"},
    ConfidenceAttack  |-> {"target_model", "target_samples", "config"},
    OfflineLiRA       |-> {"target_model", "population", "config"} ]

\* run_attack's parameters (self left out); none has a default.
AttackRunParams ==
  [ BasicShadowAttack |-> {},
    ConfidenceAttack  |-> {},
    OfflineLiRA       |-> {"target_samples"} ]

\* ------------------------------------------------------------- run_mia.py
RecognisedAttacks == {"basic-shadow", "confidence", "lira", "rmia"}

\* config.attack is a free string; "gradient" stands for an unrecognised one.
AttackNames == RecognisedAttacks \cup {"gradient"}

SplitModes == {"sampled", "disjoint"}

\* The class name run looks up in module attacks, and the keywords it passes
\* to the constructor, per branch of the dispatch.
DispatchClass ==
  [ x \in RecognisedAttacks |->
      CASE x = "basic-shadow" -> "BasicShadowAttack"
        [] x = "confidence"   -> "ConfidenceAttack"
        [] x = "lira"         -> "LiRA"
        [] x = "rmia"         -> "RMIA" ]

DispatchInitKwargs ==
  [ x \in RecognisedAttacks |->
      CASE x = "basic-shadow" -> {"target_model", "shadow_dataset", "config"}
        [] x = "confidence"   -> {"target_model", "config"}
        [] x = "lira"         -> {"target_model", "population", "config"}
        [] x = "rmia"         -> {"target_model", "population", "config"} ]

DispatchRunKwargs == {"target_samples"}

\* attacks.<Class>(**kwargs).run_attack(target_samples=...): "ok", or the
\* exception raised by the attribute lookup, the constructor call or the
\* method call.
Dispatch(attack) ==
  LET cls == DispatchClass[attack] IN
  IF cls \notin DOMAIN AttackInitParams THEN "AttributeError"
  ELSE IF ~CallOk(AttackInitParams[cls], AttackInitParams[cls], DispatchInitKwargs[attack])
       THEN "TypeError"
  ELSE IF ~CallOk(AttackRunParams[cls], AttackRunParams[cls], DispatchRunKwargs)
       THEN "TypeError"
  ELSE "ok"

\* ------------------------------------------------- floating-point values
Fin(v) == [k |-> "fin", v |-> v]
PosInf == [k |-> "inf", v |-> 1]
NegInf == [k |-> "inf", v |-> -1]
NaN    == [k |-> "nan", v |-> 0]

IsFin(a) == a.k = "fin"
IsNaN(a) == a.k = "nan"

Abs(n) == IF n < 0 THEN -n ELSE n
Sgn(n) == IF n < 0 THEN -1 ELSE 1

\* IEEE-754 addition and negation on the abstract values.
Neg(a) == IF a.k = "nan" THEN NaN ELSE [a EXCEPT !.v = -a.v]

Add(a, b) ==
  IF a.k = "nan" \/ b.k = "nan" THEN NaN
  ELSE IF a.k = "inf" /\ b.k = "inf" THEN (IF a.v = b.v THEN a ELSE NaN)
  ELSE IF a.k = "inf" THEN a
  ELSE IF b.k = "inf" THEN b
  ELSE Fin(a.v + b.v)

Sub(a, b) == Add(a, Neg(b))

RECURSIVE SumF(_)
SumF(xs) == IF xs = <<>> THEN Fin(0) ELSE Add(xs[1], SumF(Tail(xs)))

\* Integer division rounding toward zero.
QuotT(n, d) == Sgn(n) * (Abs(n) \div d)

\* Largest r with r*r <= n, by bisection on lo..hi.
RECURSIVE ISqrtIn(_, _, _)
ISqrtIn(n, lo, hi) ==
  IF lo >= hi THEN lo
  ELSE LET mid == (lo + hi + 1) \div 2 IN
       IF mid * mid <= n THEN ISqrtIn(n, mid, hi) ELSE ISqrtIn(n, lo, mid - 1)

ISqrt(n) == ISqrtIn(n, 0, 40000)

\* torch.Tensor.mean(dim=0) of one column.
MeanF(xs) ==
  LET s == SumF(xs) IN
  IF Len(xs) = 0 THEN NaN
  ELSE IF IsFin(s) THEN Fin(QuotT(s.v, Len(xs))) ELSE s

RECURSIVE SumSq(_, _)
SumSq(xs, m) ==
  IF xs = <<>> THEN 0 ELSE (xs[1].v - m) * (xs[1].v - m) + SumSq(Tail(xs), m)

\* torch.Tensor.std(dim=0) of one column: the unbiased estimator. One value
\* gives 0/0 = NaN; an infinite value makes its own deviation inf - inf = NaN.
StdF(xs) ==
  IF Len(xs) < 2 THEN NaN
  ELSE IF \E j \in 1..Len(xs) : ~IsFin(xs[j]) THEN NaN
  ELSE Fin(ISqrt(SumSq(xs, MeanF(xs).v) \div (Len(xs) - 1)))

\* Max-softmax confidences a query can return, in thousandths. 1000 is a
\* softmax that saturated to exactly 1.0 in floating point.
ConfLevels == <<500, 900, 1000>>

\* log(p / (1 - p)) in thousandths for the confidences below 1.
LogOdds == [p \in {500, 900} |-> IF p = 500 THEN 0 ELSE 2197]

\* torch.Tensor.logit() as the attack calls it: no eps argument, so the
\* input is not clamped and logit(1.0) = log(1/0) = +inf, logit(0.0) = -inf.
logit(p) ==
  IF p >= 1000 THEN PosInf
  ELSE IF p <= 0 THEN NegInf
  ELSE Fin(LogOdds[p])

\* The statistic without the 1e-8 floor: 0/0 is NaN, d/0 is infinite.
ZStatisticNoFloor(target_logit, mean, std) ==
  LET num == Sub(target_logit, mean) IN
  IF IsNaN(num) \/ ~IsFin(std) THEN NaN
  ELSE IF ~IsFin(num) THEN num
  ELSE IF std.v = 0 THEN (IF num.v = 0 THEN NaN ELSE IF num.v > 0 THEN PosInf ELSE NegInf)
  ELSE Fin(QuotT(4 * num.v, std.v))

\* x = (target_logits - means) / (stds + 1e-8), in quarters. Logits and stds
\* are in thousandths, so 1e-8 is 1 in units of 1e-8 and a thousandth is 100000.
ZStatistic(target_logit, mean, std) ==
  LET num == Sub(target_logit, mean) IN
  IF IsNaN(num) \/ ~IsFin(std) THEN NaN
  ELSE IF ~IsFin(num) THEN num
  ELSE Fin(QuotT(4 * num.v * 100000, std.v * 100000 + 1))

\* erf(z / sqrt(2)) in thousandths for z = q/4, q = 1, 2, ...; 1000 beyond.
ErfTable == <<197, 383, 547, 683, 789, 866, 920, 954, 976, 988, 994, 997, 999>>

Erf(q) ==
  IF q = 0 THEN 0
  ELSE IF Abs(q) > Len(ErfTable) THEN Sgn(q) * 1000
  ELSE Sgn(q) * ErfTable[Abs(q)]

\* pred_proba = 0.5 * (1 + erf(x / sqrt(2))), in thousandths.
PredProba(x) ==
  IF IsNaN(x) THEN NaN
  ELSE IF ~IsFin(x) THEN (IF x.v > 0 THEN Fin(1000) ELSE Fin(0))
  ELSE Fin((1000 + Erf(x.v)) \div 2)

\* statistics.mean / statistics.stdev over a list of integers (percent).
RECURSIVE SumI(_)
SumI(xs) == IF xs = <<>> THEN 0 ELSE xs[1] + SumI(Tail(xs))

RECURSIVE SumSqI(_, _)
SumSqI(xs, m) == IF xs = <<>> THEN 0 ELSE (xs[1] - m) * (xs[1] - m) + SumSqI(Tail(xs), m)

mean(xs) == SumI(xs) \div Len(xs)
stdev(xs) == ISqrt(SumSqI(xs, mean(xs)) \div (Len(xs) - 1))

\* --------------------------------------------- datasetup.py, evaluation.py
\* A dataset is [nodes, train_mask]: the node set of the (sub)graph and the
\* nodes its train_mask marks.
Dataset(S, M) == [nodes |-> S, train_mask |-> M]

\* datasetup.sample_subgraph(graph, num_nodes): the node sets a draw can
\* return, num_nodes nodes of the graph without replacement.
sample_subgraph(graph_nodes, num_nodes) ==
  {S \in SUBSET graph_nodes : Cardinality(S) = num_nodes}

\* The train masks a target dataset on node set S can carry.
TrainMasks(S) == (SUBSET S) \ {{}}

\* datasetup.target_shadow_split(dataset, split, target_frac, shadow_frac):
\* the pairs <<target nodes, other nodes>> a split can return; "disjoint"
\* shares no node, "sampled" may overlap.
target_shadow_split(graph_nodes, split) ==
  LET half == Cardinality(graph_nodes) \div 2 IN
  {<<T, P>> \in sample_subgraph(graph_nodes, half) \X sample_subgraph(graph_nodes, half) :
      split = "disjoint" => T \cap P = {}}

\* A model instance: id is the object's identity, w its parameters, mode the
\* nn.Module training flag, trained_on the node set of the dataset it was
\* last trained on, trained how many times train_gnn ran on it.
Modes == {"train", "eval"}
NewModel(id) == [id |-> id, w |-> 0, mode |-> "train", trained_on |-> {}, trained |-> 0]
Trained(m, w, mode, S) ==
  [m EXCEPT !.w = w, !.mode = mode, !.trained_on = S, !.trained = m.trained + 1]

\* The model's max-softmax confidence for a node under parameters w.
Forward(w, n) == ConfLevels[((w + n) % Len(ConfLevels)) + 1]

\* evaluation.k_hop_query followed by softmax(...).max(...): the rows of
\* confidences one query of model m over the nodes S can return. In
\* evaluation mode the forward pass is a function of the parameters; in
\* training mode dropout is active and the output varies from call to call.
Query(m, S) ==
  IF m.mode = "eval" THEN {[n \in S |-> Forward(m.w, n)]}
  ELSE {[n \in S |-> Forward(m.w, n)], [n \in S |-> Forward(m.w + 1, n)]}

\* evaluation.bc_evaluation(preds, labels): "ok" with metrics, or the error.
bc_evaluation(preds, S, labels) ==
  IF labels = {} \/ labels = S THEN "DegenerateLabelSet"
  ELSE IF \E n \in S : IsNaN(preds[n]) THEN "NumericalDegeneracy"
  ELSE "ok"

\* Metric values the scorer and the accuracy criterion can return (percent).
AurocValues == {0, 50, 100}
AccValues == {50, 100}

\* ------------------------------------------------------------------ state
VARIABLES
  entry,            \* "run": MembershipInferenceExperiment.run; "api": OfflineLiRA used directly
  config,           \* the Config object
  trainer_mode,     \* the nn.Module mode trainer.train_gnn leaves a model in
  target_samples,   \* api: the dataset the caller attacks
  pc,               \* run: "loop", "train", "attack", "returned", "raised"; "idle" when not called
  i,                \* run: repetitions completed
  target_dataset,   \* run: local target_dataset (optional)
  population,       \* run: local shadow_dataset / population (optional); api: self.population
  target_model,     \* the target model (optional)
  train_scores, test_scores, aurocs, fprs, tprs,   \* run: the per-repetition lists
  best_auroc, best_roc,                            \* run: best AUROC so far and its curve
  fpr, tpr,         \* run: locals fpr, tpr (optional: unbound before the first repetition)
  stats_branch,     \* run: "none", or the branch of the statistics if taken
  stat_df, roc_df,  \* run: the returned frames (optional)
  raised,           \* "none", or the exception that left run / the constructor
  raised_at,        \* "none", or the step the exception was raised in
  next_id,          \* identity of the next model instance
  lira_pc,          \* OfflineLiRA: "none", "create", "train", "ready", "raised"
  shadow_size,      \* OfflineLiRA.shadow_size
  shadow_dataset,   \* train_shadow_models: local shadow_dataset (node set)
  shadow_model,     \* train_shadow_models: local shadow_model (optional)
  shadow_models,    \* OfflineLiRA.shadow_models
  observed,         \* results get_mean_and_std has returned
  ncalls,           \* method calls made on the attack, counted up to MaxCalls
  attack_out,       \* what the last run_attack computed (optional)
  attack_pc,        \* BasicShadowAttack / ConfidenceAttack: "none", "ready", "raised"
  queried,          \* the k_hop_query calls the attack has made, as QueryRecords
  yaml,             \* main: the entries of config.yaml, in file order
  main_pc,          \* main: "none" when not called; "loop", "group", "done", "raised"
  group,            \* main: entries whose frames have been appended
  stat_frames, roc_frames,   \* main: the lists of frames
  files             \* main: statistics.csv and rocs.csv as written (optional)

runVars == <<pc, i, target_dataset, train_scores, test_scores, aurocs, fprs, tprs,
             best_auroc, best_roc, fpr, tpr, stats_branch, stat_df, roc_df>>
liraVars == <<lira_pc, shadow_size, shadow_dataset, shadow_model, shadow_models,
              observed, ncalls, attack_out>>
attackVars == <<liraVars, attack_pc, queried>>
mainVars == <<yaml, main_pc, group, stat_frames, roc_frames, files>>
envVars == <<entry, config, trainer_mode, target_samples>>
vars == <<envVars, mainVars, runVars, attackVars, population, target_model, raised,
          raised_at, next_id>>

MakePlots == {"true", "false", "absent"}

Configs ==
  [ attack : AttackNames, model : ModelTypes, split : SplitModes,
    experiments : 0..MaxExperiments, num_shadow_models : 0..MaxShadowModels,
    make_plots : MakePlots ]

\* The attack classes attacks.py defines, by the name run knows them under.
ApiAttacks == {"basic-shadow", "confidence", "lira"}

\* The configurations a direct user of an attack class is modelled with: the
\* classes read model, num_shadow_models and experiments only. experiments > 1
\* skips the histogram plot of lines 179-186, which only writes a file.
ApiConfigs ==
  {c \in Configs : c.attack \in ApiAttacks /\ c.split = "disjoint"
                   /\ c.experiments = MaxExperiments /\ c.make_plots = "false"
                   /\ (c.attack # "lira" => c.num_shadow_models = 0)}

\* run_experiments.py: the entries of config.yaml that are modelled, the
\* static parameters main adds to each, and the name add_name gives it.
YamlEntries == [attack : AttackNames, dataset : {"cora"}, split : {"disjoint"},
                model : {"GCN", "DecoupledGCN"}, num_shadow_models : {1}]

Yamls == UNION {[1..n -> YamlEntries] : n \in 0..MaxGroups}

StaticExperiments == 10

\* params.update(**static_params): static_params has no key make_plots.
GroupConfig(e) ==
  [attack |-> e.attack, model |-> e.model, split |-> e.split,
   experiments |-> StaticExperiments, num_shadow_models |-> e.num_shadow_models,
   make_plots |-> "absent"]

add_name(e) == <<e.attack, e.dataset, e.split, e.model>>

\* No experiment has been configured yet.
NoConfig == [attack |-> "", model |-> "", split |-> "", experiments |-> 0,
             num_shadow_models |-> 0, make_plots |-> "absent"]

\* The dataset a direct user attacks: the whole graph, node 1 being the one
\* member of the target's training set.
SampleDatasets == {Dataset(Nodes, {1})}

NoDataset == Dataset({}, {})

\* The locals of run at lines 84-88.
RunLocals ==
  [i |-> 0, target_dataset |-> None, train_scores |-> <<>>, test_scores |-> <<>>,
   aurocs |-> <<>>, fprs |-> <<>>, tprs |-> <<>>, best_auroc |-> 0, best_roc |-> None,
   fpr |-> None, tpr |-> None]

InitCommon ==
  /\ trainer_mode \in Modes
  /\ i = 0
  /\ target_dataset = None
  /\ train_scores = <<>> /\ test_scores = <<>> /\ aurocs = <<>>
  /\ fprs = <<>> /\ tprs = <<>>
  /\ best_auroc = 0 /\ best_roc = None
  /\ fpr = None /\ tpr = None
  /\ stats_branch = "none"
  /\ stat_df = None /\ roc_df = None
  /\ raised = "none"
  /\ raised_at = "none"
  /\ lira_pc = "none"
  /\ shadow_size = 0
  /\ shadow_dataset = {}
  /\ shadow_model = None
  /\ shadow_models = <<>>
  /\ observed = {}
  /\ ncalls = 0
  /\ attack_out = None
  /\ attack_pc = "none"
  /\ queried = {}
  /\ group = 0
  /\ stat_frames = <<>> /\ roc_frames = <<>>
  /\ files = None

\* run is entered with the locals of lines 84-88.
InitRun ==
  /\ entry = "run"
  /\ config \in Configs
  /\ target_samples = NoDataset
  /\ pc = "loop"
  /\ population = None
  /\ target_model = None
  /\ next_id = 1
  /\ yaml = <<>> /\ main_pc = "none"

\* A caller holds a trained target model and a population and is about to
\* construct OfflineLiRA(target_model, population, config),
\* ConfidenceAttack(target_model, target_samples, config) or
\* BasicShadowAttack(target_model, population, target_samples, config).
InitApi ==
  /\ entry = "api"
  /\ config \in ApiConfigs
  /\ target_samples \in SampleDatasets
  /\ pc = "idle"
  /\ population \in {Some(1..k) : k \in 0..NumNodes}
  /\ \E w \in Weights :
       target_model = Some(Trained(NewModel(0), w, trainer_mode, {}))
  /\ next_id = 1
  /\ yaml = <<>> /\ main_pc = "none"

\* main has read config.yaml and is about to loop over its entries.
InitMain ==
  /\ entry = "main"
  /\ config = NoConfig
  /\ target_samples = NoDataset
  /\ pc = "idle"
  /\ population = None
  /\ target_model = None
  /\ next_id = 1
  /\ yaml \in Yamls /\ main_pc = "loop"

Init == InitCommon /\ (InitRun \/ InitApi \/ InitMain)

\* ------------------------------------------ MembershipInferenceExperiment.run
\* An exception leaves run: there is no try/except in run, so the loop is
\* left, nothing is aggregated and nothing is returned.
RaiseCaught(e) ==
  /\ raised' = e
  /\ raised_at' = pc
  /\ pc' = "loop"
  /\ i' = i + 1
  /\ UNCHANGED <<target_dataset, train_scores, test_scores, aurocs, fprs, tprs,
                 best_auroc, best_roc, fpr, tpr, stats_branch, stat_df, roc_df>>

Raise(e) ==
  /\ raised' = e
  /\ raised_at' = pc
  /\ pc' = "raised"
  /\ UNCHANGED <<i, target_dataset, train_scores, test_scores, aurocs, fprs, tprs,
                 best_auroc, best_roc, fpr, tpr, stats_branch, stat_df, roc_df>>

\* The split mode the lira and rmia branches pass to target_shadow_split,
\* whatever config.split says.
LiraSplit(c) == "disjoint"

\* Lines 89-130, first statement of each branch: the split of the repetition,
\* or the AttributeError of the else branch.
RunSplit ==
  /\ entry \in {"run", "main"} /\ pc = "loop" /\ i < config.experiments
  /\ UNCHANGED <<envVars, mainVars, attackVars, target_model, next_id>>
  /\ IF config.attack \notin RecognisedAttacks
     THEN Raise("AttributeError") /\ UNCHANGED population
     ELSE /\ pc' = "train"
          /\ UNCHANGED <<i, train_scores, test_scores, aurocs, fprs, tprs, best_auroc,
                         best_roc, fpr, tpr, stats_branch, stat_df, roc_df, raised,
                         raised_at>>
          /\ IF config.attack = "confidence"
             THEN /\ \E T \in sample_subgraph(Nodes, NumNodes \div 2) :
                       \E M \in TrainMasks(T) : target_dataset' = Some(Dataset(T, M))
                  /\ UNCHANGED population
             ELSE \E pair \in target_shadow_split(Nodes,
                                 IF config.attack = "basic-shadow" THEN config.split
                                 ELSE LiraSplit(config)) :
                       \E M \in TrainMasks(pair[1]) :
                          /\ target_dataset' = Some(Dataset(pair[1], M))
                          /\ population' = Some(pair[2])

\* train_target_model (lines 31-79) without grid search: fresh_model, then
\* trainer.train_gnn, either of which may raise.
RunTrainTarget ==
  /\ entry \in {"run", "main"} /\ pc = "train"
  /\ UNCHANGED <<envVars, mainVars, attackVars, population>>
  /\ IF fresh_model(config.model) # "ok"
     THEN Raise(fresh_model(config.model)) /\ UNCHANGED <<target_model, next_id>>
     ELSE /\ next_id' = next_id + 1
          /\ \/ /\ Raise("TrainingFailure")
                /\ UNCHANGED target_model
             \/ /\ \E w \in Weights :
                     target_model' = Some(Trained(NewModel(next_id), w, trainer_mode,
                                                  The(target_dataset).nodes))
                /\ pc' = "attack"
                /\ UNCHANGED <<i, target_dataset, train_scores, test_scores, aurocs, fprs,
                               tprs, best_auroc, best_roc, fpr, tpr, stats_branch, stat_df,
                               roc_df, raised, raised_at>>

\* Lines 148-153: the best curve so far.
BestRoc(best, bestRoc, auroc, roc) ==
  IF best < auroc THEN <<auroc, Some(roc)>> ELSE <<best, bestRoc>>

\* Lines 95-99 / 104-107 / 114-118 / 123-127, then lines 132-157: the attack
\* is constructed and run, and its metrics are recorded.
RunAttack ==
  /\ entry \in {"run", "main"} /\ pc = "attack"
  /\ UNCHANGED <<envVars, mainVars, attackVars, population, target_model, next_id>>
  /\ IF Dispatch(config.attack) # "ok"
     THEN Raise(Dispatch(config.attack))
     ELSE \E auroc \in AurocValues, train_score \in AccValues, test_score \in AccValues :
            LET roc  == <<[rep |-> i + 1, axis |-> "fpr"], [rep |-> i + 1, axis |-> "tpr"]>>
                best == BestRoc(best_auroc, best_roc, auroc, roc)
            IN /\ fpr' = Some(roc[1]) /\ tpr' = Some(roc[2])
               /\ fprs' = Append(fprs, roc[1]) /\ tprs' = Append(tprs, roc[2])
               /\ best_auroc' = best[1] /\ best_roc' = best[2]
               /\ train_scores' = Append(train_scores, train_score)
               /\ test_scores' = Append(test_scores, test_score)
               /\ aurocs' = Append(aurocs, auroc)
               /\ i' = i + 1
               /\ pc' = "loop"
               /\ UNCHANGED <<target_dataset, stats_branch, stat_df, roc_df, raised,
                              raised_at>>

\* Line 159: which statistics are built for R repetitions.
StatsBranchAny(R) == IF R >= 0 THEN "meanstd" ELSE "raw"
StatsBranch(R) == IF R > 1 THEN "meanstd" ELSE "raw"

\* Lines 160-173.
Stats(branch) ==
  IF branch = "meanstd"
  THEN [ train_acc_mean  |-> <<mean(train_scores)>>,
         train_acc_stdev |-> <<stdev(train_scores)>>,
         test_acc_mean   |-> <<mean(test_scores)>>,
         test_acc_stdev  |-> <<stdev(test_scores)>>,
         auroc_mean      |-> <<mean(aurocs)>>,
         auroc_stdev     |-> <<stdev(aurocs)>> ]
  ELSE [ train_acc |-> train_scores, test_acc |-> test_scores, auroc |-> aurocs ]

\* utils.plot_multi_roc_loglog's parameters, and how line 184 calls it:
\* three positional arguments and savepath.
PlotMultiParams == {"fprs", "tprs", "train_accs", "test_accs", "title", "savepath"}
PlotMultiRequired == {"fprs", "tprs", "train_accs", "test_accs"}
PlotMultiPassed == {"fprs", "tprs", "train_accs", "savepath"}

\* Lines 159-187 after the loop: "ok" when run returns, else the first
\* exception. statistics.mean needs one value and stdev two; a DataFrame
\* with a one-entry index needs columns of length one; fpr is unbound when no
\* repetition ran; unpacking best_roc = None is a TypeError.
AggregateOutcome(branch) ==
  IF branch = "meanstd" /\ Len(train_scores) < 2 THEN "StatisticsError"
  ELSE IF branch = "raw" /\ Len(train_scores) # 1 THEN "ValueError"
  ELSE IF fpr = None THEN "UnboundLocalError"
  ELSE IF config.make_plots = "absent" THEN "AttributeError"
  ELSE IF config.make_plots = "true" /\ config.experiments > 1 /\ best_roc = None
       THEN "TypeError"
  ELSE IF config.make_plots = "true" /\ config.experiments > 1
          /\ ~CallOk(PlotMultiParams, PlotMultiRequired, PlotMultiPassed)
       THEN "TypeError"
  ELSE "ok"

\* Lines 159-187: the loop is over; the statistics and the ROC frame are
\* built and returned.
RunAggregate ==
  /\ entry \in {"run", "main"} /\ pc = "loop" /\ i >= config.experiments
  /\ UNCHANGED <<envVars, mainVars, attackVars, population, target_model, next_id>>
  /\ LET branch == StatsBranch(config.experiments)
         out == AggregateOutcome(branch)
     IN /\ stats_branch' = branch
        /\ IF out # "ok"
           THEN /\ raised' = out /\ raised_at' = "aggregate" /\ pc' = "raised"
                /\ UNCHANGED <<stat_df, roc_df>>
           ELSE /\ stat_df' = Some(Stats(branch))
                /\ roc_df' = Some([fpr |-> The(fpr), tpr |-> The(tpr)])
                /\ pc' = "returned"
                /\ UNCHANGED <<raised, raised_at>>
        /\ UNCHANGED <<i, target_dataset, train_scores, test_scores, aurocs, fprs, tprs,
                       best_auroc, best_roc, fpr, tpr>>

\* ----------------------------------------------------- attacks.OfflineLiRA
\* shadow_model.eval() / target_model.eval().
EvalSkipped(m) == m
Eval(m) == [m EXCEPT !.mode = "eval"]

\* Lines 123-130 up to the loop of train_shadow_models.
LiRAInit ==
  /\ entry = "api" /\ config.attack = "lira" /\ lira_pc = "none"
  /\ target_model' = Some(Eval(The(target_model)))
  /\ shadow_models' = <<>>
  /\ shadow_size' = Cardinality(The(population)) \div 2
  /\ lira_pc' = IF config.num_shadow_models = 0 THEN "ready" ELSE "create"
  /\ UNCHANGED <<envVars, mainVars, runVars, population, raised, raised_at, next_id,
                 shadow_dataset, shadow_model, observed, ncalls, attack_out, attack_pc,
                 queried>>

\* The instance utils.fresh_model returns in one loop iteration.
ReusedInstance == IF shadow_model = None THEN NewModel(next_id) ELSE The(shadow_model)
FreshInstance == NewModel(next_id)

\* Lines 145-152: one iteration draws its subgraph and creates its model.
LiRACreateShadow ==
  /\ entry = "api" /\ lira_pc = "create"
  /\ \E S \in sample_subgraph(The(population), shadow_size) : shadow_dataset' = S
  /\ IF fresh_model(config.model) # "ok"
     THEN /\ lira_pc' = "raised"
          /\ raised' = fresh_model(config.model)
          /\ raised_at' = "create"
          /\ UNCHANGED <<shadow_model, next_id>>
     ELSE /\ shadow_model' = Some(FreshInstance)
          /\ next_id' = next_id + 1
          /\ lira_pc' = "train"
          /\ UNCHANGED <<raised, raised_at>>
  /\ UNCHANGED <<envVars, mainVars, runVars, population, target_model, shadow_size,
                 shadow_models, observed, ncalls, attack_out, attack_pc, queried>>

\* Lines 153-159: the iteration trains its model on its subgraph and retains it.
LiRATrainShadow ==
  /\ entry = "api" /\ lira_pc = "train"
  /\ \/ /\ lira_pc' = "raised"
        /\ raised' = "TrainingFailure"
        /\ raised_at' = "train"
        /\ UNCHANGED <<shadow_model, shadow_models>>
     \/ \E w \in Weights :
          LET m == Trained(The(shadow_model), w, trainer_mode, shadow_dataset) IN
          /\ shadow_model' = Some(m)
          /\ shadow_models' = Append(shadow_models, m)
          /\ lira_pc' = IF Len(shadow_models) + 1 >= config.num_shadow_models
                        THEN "ready" ELSE "create"
          /\ UNCHANGED <<raised, raised_at>>
  /\ UNCHANGED <<envVars, mainVars, runVars, population, target_model, next_id,
                 shadow_size, shadow_dataset, observed, ncalls, attack_out, attack_pc,
                 queried>>

\* One row per model of the list, in order.
RECURSIVE Matrices(_, _)
Matrices(models, S) ==
  IF models = <<>> THEN {<<>>}
  ELSE {<<r>> \o rest : r \in Query(models[1], S), rest \in Matrices(Tail(models), S)}

\* Lines 173-178: logit scaling, stacking, per-node mean and std. torch.stack
\* of an empty list raises RuntimeError. The assertion of line 176 holds of
\* every stack of one row per model and one column per node.
Logits(confs, S) == [j \in 1..Len(confs) |-> [n \in S |-> logit(confs[j][n])]]

MeanStd(confs, S) ==
  LET lg == Logits(confs, S)
      col(n) == [j \in 1..Len(confs) |-> lg[j][n]]
  IN IF Len(confs) = 0
     THEN [error |-> "RuntimeError", means |-> <<>>, stds |-> <<>>]
     ELSE [error |-> "none",
           means |-> [n \in S |-> MeanF(col(n))],
           stds  |-> [n \in S |-> StdF(col(n))]]

\* The shadow models after the loop of lines 164-174 has put each in
\* evaluation mode.
EvalAll(models) == [j \in 1..Len(models) |-> Eval(models[j])]

Min(a, b) == IF a < b THEN a ELSE b

\* One call of evaluation.k_hop_query as the attack makes it: on which model,
\* in which mode the model is, and whether inside torch.inference_mode().
QueryRecord(who, m, inference) ==
  [who |-> who, id |-> m.id, mode |-> m.mode, inference |-> inference]

\* The queries of get_mean_and_std: one per shadow model, each after
\* shadow_model.eval() and inside the with block of line 166.
ShadowQueries(models) ==
  {QueryRecord("shadow", Eval(models[j]), TRUE) : j \in 1..Len(models)}

\* Lines 161-187: get_mean_and_std(target_samples).
LiRAGetMeanAndStd ==
  /\ entry = "api" /\ lira_pc = "ready"
  /\ shadow_models' = EvalAll(shadow_models)
  /\ \E confs \in Matrices(EvalAll(shadow_models), target_samples.nodes) :
       observed' = observed \cup {MeanStd(confs, target_samples.nodes)}
  /\ queried' = queried \cup ShadowQueries(shadow_models)
  /\ ncalls' = Min(ncalls + 1, MaxCalls)
  /\ UNCHANGED <<envVars, mainVars, runVars, population, target_model, raised, raised_at,
                 next_id, lira_pc, shadow_size, shadow_dataset, shadow_model, attack_out,
                 attack_pc>>

\* Lines 199-212 for the statistics ms and the target's confidences tconf.
AttackOut(confs, ms, tconf, S, labels) ==
  LET tl == [n \in S |-> logit(tconf[n])]
      x  == [n \in S |-> ZStatistic(tl[n], ms.means[n], ms.stds[n])]
      pp == [n \in S |-> PredProba(x[n])]
  IN IF ms.error # "none"
     THEN [error |-> ms.error, logits |-> <<>>, target_logits |-> <<>>, means |-> <<>>,
           stds |-> <<>>, x |-> <<>>, pred_proba |-> <<>>, result |-> "none"]
     ELSE [error |-> "none", logits |-> Logits(confs, S), target_logits |-> tl,
           means |-> ms.means, stds |-> ms.stds, x |-> x, pred_proba |-> pp,
           result |-> bc_evaluation(pp, S, labels)]

\* Lines 189-212: run_attack(target_samples).
LiRARunAttack ==
  /\ entry = "api" /\ lira_pc = "ready"
  /\ shadow_models' = EvalAll(shadow_models)
  /\ \E confs \in Matrices(EvalAll(shadow_models), target_samples.nodes) :
       \E tconf \in Query(The(target_model), target_samples.nodes) :
          LET ms == MeanStd(confs, target_samples.nodes) IN
          /\ observed' = observed \cup {ms}
          /\ attack_out' = Some(AttackOut(confs, ms, tconf, target_samples.nodes,
                                          target_samples.train_mask))
  /\ queried' = queried \cup ShadowQueries(shadow_models)
                         \cup {QueryRecord("target", The(target_model), TRUE)}
  /\ ncalls' = Min(ncalls + 1, MaxCalls)
  /\ UNCHANGED <<envVars, mainVars, runVars, population, target_model, raised, raised_at,
                 next_id, lira_pc, shadow_size, shadow_dataset, shadow_model, attack_pc>>

\* ------------------------------------- attacks.ConfidenceAttack, BasicShadowAttack
\* Lines 99-106: ConfidenceAttack(target_model, target_samples, config).
ConfidenceInit ==
  /\ entry = "api" /\ config.attack = "confidence" /\ attack_pc = "none"
  /\ target_model' = Some(Eval(The(target_model)))
  /\ attack_pc' = "ready"
  /\ UNCHANGED <<envVars, mainVars, runVars, liraVars, queried, population, raised,
                 raised_at, next_id>>

\* Lines 108-119: ConfidenceAttack.run_attack() with a config that carries
\* confidence_threshold: the target's max-softmax confidences are the score.
ConfidenceRunAttack ==
  /\ entry = "api" /\ config.attack = "confidence" /\ attack_pc = "ready"
  /\ \E tconf \in Query(The(target_model), target_samples.nodes) :
       attack_out' =
         Some([error |-> "none", confidences |-> tconf,
               result |-> bc_evaluation([n \in target_samples.nodes |-> Fin(tconf[n])],
                                        target_samples.nodes, target_samples.train_mask)])
  /\ queried' = queried \cup {QueryRecord("target", The(target_model), TRUE)}
  /\ ncalls' = Min(ncalls + 1, MaxCalls)
  /\ UNCHANGED <<envVars, mainVars, runVars, population, target_model, raised, raised_at,
                 next_id, lira_pc, shadow_size, shadow_dataset, shadow_model, shadow_models,
                 observed, attack_pc>>

\* Lines 18-33: BasicShadowAttack(target_model, shadow_dataset, target_samples,
\* config). The shadow model comes from fresh_model; line 28 then looks up
\* models.MLP, a name module models does not define, so no instance is ever
\* constructed and run_attack (lines 81-95) cannot be called on one.
BasicShadowInit ==
  /\ entry = "api" /\ config.attack = "basic-shadow" /\ attack_pc = "none"
  /\ target_model' = Some(Eval(The(target_model)))
  /\ attack_pc' = "raised"
  /\ IF fresh_model(config.model) # "ok"
     THEN /\ raised' = fresh_model(config.model)
          /\ raised_at' = "create"
          /\ UNCHANGED <<shadow_model, next_id>>
     ELSE /\ shadow_model' = Some(FreshInstance)
          /\ next_id' = next_id + 1
          /\ raised' = IF "MLP" \in DOMAIN ModelParams THEN "TypeError" ELSE "AttributeError"
          /\ raised_at' = "init"
  /\ UNCHANGED <<envVars, mainVars, runVars, population, lira_pc, shadow_size,
                 shadow_dataset, shadow_models, observed, ncalls, attack_out, queried>>

\* ------------------------------------------------------ run_experiments.main
\* Lines 25-33 up to the call: the next entry gets the static parameters and
\* its name, and run_mia.main constructs an experiment and enters run.
MainStartGroup ==
  /\ entry = "main" /\ main_pc = "loop" /\ group < Len(yaml)
  /\ config' = GroupConfig(yaml[group + 1])
  /\ main_pc' = "group"
  /\ pc' = "loop"
  /\ i' = RunLocals.i /\ target_dataset' = RunLocals.target_dataset
  /\ train_scores' = RunLocals.train_scores /\ test_scores' = RunLocals.test_scores
  /\ aurocs' = RunLocals.aurocs /\ fprs' = RunLocals.fprs /\ tprs' = RunLocals.tprs
  /\ best_auroc' = RunLocals.best_auroc /\ best_roc' = RunLocals.best_roc
  /\ fpr' = RunLocals.fpr /\ tpr' = RunLocals.tpr
  /\ stats_branch' = "none" /\ stat_df' = None /\ roc_df' = None
  /\ UNCHANGED <<entry, trainer_mode, target_samples, yaml, group, stat_frames, roc_frames,
                 files, attackVars, population, target_model, raised, raised_at, next_id>>

\* Lines 33-35: the call returns and its frames are appended, or its
\* exception leaves main, which has no try/except.
MainGroupOver ==
  /\ entry = "main" /\ main_pc = "group" /\ pc \in {"returned", "raised"}
  /\ IF pc = "returned"
     THEN /\ stat_frames' = Append(stat_frames, [name |-> add_name(yaml[group + 1]),
                                                 stats |-> The(stat_df)])
          /\ roc_frames' = Append(roc_frames, [name |-> add_name(yaml[group + 1]),
                                               fpr |-> The(roc_df).fpr,
                                               tpr |-> The(roc_df).tpr])
          /\ group' = group + 1
          /\ main_pc' = "loop"
          /\ pc' = "idle"
     ELSE /\ main_pc' = "raised"
          /\ UNCHANGED <<stat_frames, roc_frames, group, pc>>
  /\ UNCHANGED <<envVars, yaml, files, i, target_dataset, train_scores, test_scores,
                 aurocs, fprs, tprs, best_auroc, best_roc, fpr, tpr, stats_branch, stat_df,
                 roc_df, attackVars, population, target_model, raised, raised_at, next_id>>

\* Lines 36-38: after the loop the frames are concatenated and written.
\* pd.concat of an empty list raises ValueError.
MainWrite ==
  /\ entry = "main" /\ main_pc = "loop" /\ group >= Len(yaml)
  /\ IF stat_frames = <<>>
     THEN /\ raised' = "ValueError" /\ raised_at' = "write" /\ main_pc' = "raised"
          /\ UNCHANGED files
     ELSE /\ files' = Some([statistics |-> stat_frames, rocs |-> roc_frames])
          /\ main_pc' = "done"
          /\ UNCHANGED <<raised, raised_at>>
  /\ UNCHANGED <<envVars, yaml, group, stat_frames, roc_frames, runVars, attackVars,
                 population, target_model, next_id>>

\* ---------------------------------------------------------- specification
Next ==
  \/ RunSplit
  \/ RunTrainTarget
  \/ RunAttack
  \/ RunAggregate
  \/ LiRAInit
  \/ LiRACreateShadow
  \/ LiRATrainShadow
  \/ LiRAGetMeanAndStd
  \/ LiRARunAttack
  \/ ConfidenceInit
  \/ ConfidenceRunAttack
  \/ BasicShadowInit
  \/ MainStartGroup
  \/ MainGroupOver
  \/ MainWrite

Spec == Init /\ [][Next]_vars

\* ------------------------------------------------------------------ claims
RunOver == pc \in {"returned", "raised"}

\* The attack step of the current repetition has been executed.
AttackStepOver == raised_at \in {"attack", "aggregate"} \/ i >= 1

\* C1: for each recognised attack, a repetition of run whose target model
\* is trained constructs the attack and gets its metrics from
\* run_attack(target_samples): the attack step does not end in an
\* attribute-lookup, constructor or call-signature error.
C1_AttackStepYieldsMetrics ==
  (entry = "run" /\ config.attack \in RecognisedAttacks /\ raised_at = "attack")
    => raised \notin {"AttributeError", "TypeError"}

C3_StatisticsKeysFollowR ==
  (entry = "run" /\ config.experiments >= 1 /\ config.attack \in RecognisedAttacks
     /\ RunOver /\ AttackStepOver)
    => /\ stat_df # None
       /\ config.experiments = 1
            => DOMAIN The(stat_df) = {"train_acc", "test_acc", "auroc"}
       /\ config.experiments > 1
            => /\ DOMAIN The(stat_df) = {"train_acc_mean", "train_acc_stdev", "test_acc_mean",
                                         "test_acc_stdev", "auroc_mean", "auroc_stdev"}
               /\ Len(aurocs) = config.experiments

RECURSIVE MaxOf(_)
MaxOf(xs) == IF Len(xs) = 1 THEN xs[1]
             ELSE LET m == MaxOf(Tail(xs)) IN IF xs[1] > m THEN xs[1] ELSE m

\* C4: a run of R >= 1 repetitions of a recognised attack, past its attack
\* steps, retains a best ROC curve, and it is the curve of a repetition whose
\* AUROC is the maximum over the repetitions.
C4_BestRocIsOfMaxAuroc ==
  (entry = "run" /\ config.experiments >= 1 /\ config.attack \in RecognisedAttacks
     /\ RunOver /\ AttackStepOver)
    => /\ best_roc # None
       /\ aurocs # <<>>
       /\ \E r \in 1..Len(aurocs) :
            /\ aurocs[r] = MaxOf(aurocs)
            /\ The(best_roc) = <<fprs[r], tprs[r]>>

\* C5: an exception raised in a repetition is not caught by run: run is over
\* at once, no later repetition or step follows, and neither statistics nor a
\* ROC frame is returned; statistics exist only after all R repetitions.
C5_ErrorAbortsGroup ==
  /\ []((entry = "run" /\ raised # "none")
          => (pc = "raised" /\ stat_df = None /\ roc_df = None))
  /\ [](stats_branch # "none" => i >= config.experiments)
  /\ [](stat_df # None => (i = config.experiments /\ raised = "none"))
  /\ [][(entry = "run" /\ raised # "none") => UNCHANGED vars]_vars

\* An exception in the first of at least two repetitions.
C5_Witness ==
  /\ entry = "run" /\ pc = "raised" /\ raised_at = "attack"
  /\ i = 0 /\ config.experiments >= 2

\* C6: the ensemble under construction holds only models that are distinct
\* fresh instances, each trained exactly once on its own subgraph of
\* floor(|population|/2) population nodes; a new instance exists only after
\* every earlier one is trained and retained; once constructed there are
\* exactly K of them.
C6_EnsembleOfKFreshModels ==
  entry = "api" =>
    /\ lira_pc = "ready" => Len(shadow_models) = config.num_shadow_models
    /\ \A j \in 1..Len(shadow_models) :
         /\ shadow_models[j].trained = 1
         /\ shadow_models[j].trained_on \subseteq The(population)
         /\ Cardinality(shadow_models[j].trained_on) = Cardinality(The(population)) \div 2
         /\ shadow_models[j].id # The(target_model).id
         /\ \A k \in 1..Len(shadow_models) :
              k # j => shadow_models[k].id # shadow_models[j].id
    /\ lira_pc = "create" => next_id - 1 = Len(shadow_models)
    /\ lira_pc = "train"
         => /\ next_id - 1 = Len(shadow_models) + 1
            /\ The(shadow_model).trained = 0
            /\ \A j \in 1..Len(shadow_models) : shadow_models[j].id # The(shadow_model).id

\* An ensemble of two models constructed on a population of three nodes.
C6_Witness ==
  /\ entry = "api" /\ lira_pc = "ready"
  /\ config.num_shadow_models = 2 /\ Len(shadow_models) = 2
  /\ Cardinality(The(population)) = 3

\* What of a shadow model a query must leave alone: all but the mode flag.
Retained(models) ==
  [j \in 1..Len(models) |->
     [id |-> models[j].id, w |-> models[j].w, trained_on |-> models[j].trained_on,
      trained |-> models[j].trained]]

\* C7: every call of get_mean_and_std on a trained ensemble with the same
\* samples returns the same (means, stds), and no call trains a model, creates
\* one or changes the retained shadow models.
C7_StatisticsRepeatable ==
  /\ [](Cardinality(observed) <= 1)
  /\ [][lira_pc = "ready" => (/\ Retained(shadow_models') = Retained(shadow_models)
                              /\ next_id' = next_id
                              /\ lira_pc' = "ready")]_vars

\* Two calls on an ensemble of two models that training left in training mode.
C7_Witness ==
  /\ entry = "api" /\ ncalls >= 2 /\ trainer_mode = "train"
  /\ Len(shadow_models) = 2
  /\ \E r \in observed : r.error = "none"

\* The case of C8 at node n of the last attack: the shadow std is 0 (all K
\* shadow logit-confidences are equal) and the target's equals them.
EqualConfidences(n) ==
  /\ The(attack_out).error = "none"
  /\ The(attack_out).stds[n] = Fin(0)
  /\ \A j \in 1..Len(shadow_models) :
       The(attack_out).logits[j][n] = The(attack_out).target_logits[n]

AttackNodes == IF config.attack # "lira" \/ attack_out = None
                  \/ The(attack_out).error # "none" THEN {}
               ELSE target_samples.nodes

\* C8 as claimed: in that case z is large but finite and p saturates near 1.
C8_EqualConfidencesSaturate ==
  \A n \in AttackNodes :
    EqualConfidences(n)
      => /\ IsFin(The(attack_out).x[n])
         /\ The(attack_out).x[n].v > Len(ErfTable)
         /\ IsFin(The(attack_out).pred_proba[n])
         /\ The(attack_out).pred_proba[n].v >= 999

\* C8 as amended: in that case z = 0/(0 + 1e-8) = 0 and p = 0.5, finite and
\* not NaN.
C8_EqualConfidencesGiveHalf ==
  \A n \in AttackNodes :
    EqualConfidences(n)
      => /\ The(attack_out).x[n] = Fin(0)
         /\ The(attack_out).pred_proba[n] = Fin(500)

C8_Witness ==
  /\ Len(shadow_models) >= 2
  /\ \E n \in AttackNodes : EqualConfidences(n)

\* C9: every logit-confidence the attack computes, for each shadow model and
\* for the target model, is finite.
C9_LogitsFinite ==
  \A n \in AttackNodes :
    /\ IsFin(The(attack_out).target_logits[n])
    /\ \A j \in 1..Len(The(attack_out).logits) : IsFin(The(attack_out).logits[j][n])

UnsupportedAttack == config.attack \notin RecognisedAttacks
UnsupportedModel == config.model \notin DOMAIN ModelParams

C12_SupportedModelConstructs ==
  (config.model \in SupportedModels /\ raised_at \in {"train", "create"})
    => raised \notin {"TypeError", "AttributeError"}

\* Repetitions whose attack step has been executed so far.
AttackSteps == i + (IF raised_at = "attack" THEN 1 ELSE 0)

\* C13: under every recognised attack, each repetition whose attack step has
\* been executed has its target-model train accuracy, test accuracy, AUROC
\* and ROC curve recorded: the five lists hold one entry per such repetition,
\* entry j being repetition j's.
C13_ScoresRecordedPerRepetition ==
  (entry = "run" /\ config.attack \in RecognisedAttacks)
    => /\ Len(train_scores) = AttackSteps
       /\ Len(test_scores) = AttackSteps
       /\ Len(aurocs) = AttackSteps
       /\ Len(fprs) = AttackSteps /\ Len(tprs) = AttackSteps
       /\ \A j \in 1..Len(fprs) : fprs[j].rep = j /\ tprs[j].rep = j

\* C16: a run of R >= 1 repetitions of a recognised attack, past its attack
\* steps, returns a ROC frame, and the frame holds the curve of the last
\* repetition executed, whichever repetition has the highest AUROC.
C16_RocFrameIsLastRepetition ==
  (entry = "run" /\ config.experiments >= 1 /\ config.attack \in RecognisedAttacks
     /\ RunOver /\ AttackStepOver)
    => /\ roc_df # None
       /\ fprs # <<>>
       /\ The(roc_df) = [fpr |-> fprs[Len(fprs)], tpr |-> tprs[Len(tprs)]]

\* C14: every query an attack has issued, against the target or a shadow
\* model, found the model in evaluation mode and was made inside
\* torch.inference_mode(), however many shadow models were trained since the
\* attack was constructed; a step that queries leaves the retained shadow
\* models and the target model as they were, the mode flag apart.
C14_QueriesInEvalInference ==
  /\ [](\A q \in queried : q.mode = "eval" /\ q.inference)
  /\ [][queried' # queried
          => /\ Retained(shadow_models') = Retained(shadow_models)
             /\ Retained(target_model') = Retained(target_model)]_vars

\* A LiRA attack on two shadow models that training left in training mode
\* has queried both of them and the target.
C14_Witness ==
  /\ entry = "api" /\ config.attack = "lira" /\ trainer_mode = "train"
  /\ Len(shadow_models) = 2
  /\ \E q \in queried : q.who = "target"
  /\ Cardinality({q \in queried : q.who = "shadow"}) = 2

MainOver == main_pc \in {"done", "raised"}

\* C15: once main is over, statistics.csv and rocs.csv are written, with one
\* row and one fpr/tpr column pair per entry of the configuration file, named
\* after the entry and in file order.
C15_FilesHoldOneRowPerConfig ==
  (entry = "main" /\ MainOver)
    => /\ files # None
       /\ Len(The(files).statistics) = Len(yaml)
       /\ Len(The(files).rocs) = Len(yaml)
       /\ \A j \in 1..Len(yaml) :
            /\ The(files).statistics[j].name = add_name(yaml[j])
            /\ The(files).rocs[j].name = add_name(yaml[j])

====
